---- MODULE Spec2Model ----
(***************************************************************************)
(* Model of artifactory/commands/gradle/gradle.go: one run of              *)
(* GradleCommand.Run (init, runGradle, unmarshalDeployableArtifacts,       *)
(* conditionalUpload).  Every call to a collaborator (config reader,       *)
(* build executor, manifest parser, scanner, reader Close/Reset, upload    *)
(* command) is one step whose outcome is chosen nondeterministically and   *)
(* is appended to `trace` together with the error it returned.             *)
(***************************************************************************)
EXTENDS Integers, Sequences, FiniteSets, TLC

\* ---------------------------------------------------------------- bounds
\* Largest number of files in one selection returned by the scanner.
MaxFiles == 2
\* Largest thread count given to SetThreads.
MaxThreads == 1

\* ------------------------------------------------------------- constants
Nil == "nil"
Running == "running"
EmptyUrl == "http://empty_url"
EmptyRepo == "empty_repo"

ErrReadConfig     == "ErrReadConfig"
ErrNoDeployer     == "ErrNoDeployer"
ErrCreateTempFile == "ErrCreateTempFile"
ErrCloseTempFile  == "ErrCloseTempFile"
ErrBuildConfig    == "ErrBuildConfig"
ErrBuildInfoProps == "ErrBuildInfoProps"
ErrDependencyPath == "ErrDependencyPath"
ErrGradleExec     == "ErrGradleExec"
ErrParse          == "ErrParse"
ErrServerDetails  == "ErrServerDetails"
ErrScan           == "ErrScan"
ErrClose          == "ErrClose"
ErrUploadBinaries == "ErrUploadBinaries"
ErrUploadPom      == "ErrUploadPom"

\* A *spec.SpecFiles value: absent (nil pointer) or present with n files.
NilSpec == [present |-> FALSE, files |-> 0]
SpecFiles(n) == [present |-> TRUE, files |-> n]

VARIABLES
    xrayScan,                  \* gc.xrayScan
    detailedSummary,           \* gc.detailedSummary
    threads,                   \* gc.threads
    deployerSet,               \* the config file has a "deployer" section
    rawConfig,                 \* the deployer keys of the config file as written
    vConfig,                   \* the viper configuration handed to runGradle
    serverDetails,             \* gc.serverDetails /= nil
    deploymentDisabled,        \* gc.deploymentDisabled
    buildArtifactsDetailsFile, \* gc.buildArtifactsDetailsFile ("" = none)
    result,                    \* gc.result /= nil
    reader,                    \* state of gc.result.Reader()
    binariesSpecFile,          \* local of conditionalUpload
    pomSpecFile,               \* local of conditionalUpload
    err,                       \* local err of conditionalUpload
    props,                     \* properties built for the build executor
    pc,                        \* position of Run
    ret,                       \* value returned by Run
    trace                      \* collaborator calls made so far, in order

vars == <<xrayScan, detailedSummary, threads, deployerSet, rawConfig, vConfig,
          serverDetails, deploymentDisabled, buildArtifactsDetailsFile,
          result, reader, binariesSpecFile, pomSpecFile, err, props, pc,
          ret, trace>>

inputs == <<xrayScan, detailedSummary, threads, deployerSet, rawConfig>>

\* ------------------------------------------------------------- helpers
Call(op, e) == [op |-> op, err |-> e]

Log(op, e) == Append(trace, Call(op, e))

Calls(op) == {i \in 1..Len(trace) : trace[i].op = op}

NumCalls(op) == Cardinality(Calls(op))

UploadCalls == Calls("uploadBinaries") \cup Calls("uploadPom")

NoProps == [deployArtifacts |-> "", url |-> "", repo |-> "", forkCount |-> 0,
            deployableArtifacts |-> ""]

\* ------------------------------------------------- pure functions of the code
IsXrayScan == xrayScan

IsDetailedSummary == detailedSummary

shouldCreateBuildArtifactsFile_IgnoresDisabled(disabled) ==
    IsDetailedSummary \/ IsXrayScan

shouldCreateBuildArtifactsFile(disabled) ==
    (IsDetailedSummary /\ ~disabled) \/ IsXrayScan

setDeployFalse_Overwrites(v) ==
    [v EXCEPT !.deployArtifacts = "false", !.url = EmptyUrl,
              !.repo = EmptyRepo]

setDeployFalse(v) ==
    [v EXCEPT !.deployArtifacts = "false",
              !.url  = IF v.url = "" THEN EmptyUrl ELSE v.url,
              !.repo = IF v.repo = "" THEN EmptyRepo ELSE v.repo]

\* build.CreateBuildInfoProps: the properties are the values of the
\* configuration keys; the deployable-artifacts path is stored in vConfig.
CreateBuildInfoProps(file, v) ==
    [deployArtifacts |-> v.deployArtifacts, url |-> v.url, repo |-> v.repo,
     forkCount |-> v.forkCount, deployableArtifacts |-> file]

\* Returns the configuration as mutated and the properties built from it.
createGradleRunConfig(v, file, nthreads, disableDeploy) ==
    LET v1 == IF nthreads > 0 THEN [v EXCEPT !.forkCount = nthreads] ELSE v
        v2 == IF disableDeploy THEN setDeployFalse(v1) ELSE v1
    IN  [vConfig |-> v2, props |-> CreateBuildInfoProps(file, v2)]

\* ------------------------------------------------------------------ Init
RawConfigs ==
    {[deployArtifacts |-> d, url |-> u, repo |-> r, forkCount |-> 0] :
        d \in {"", "true", "false"}, u \in {"", "http://repo"},
        r \in {"", "libs-release"}}

Init ==
    /\ xrayScan \in BOOLEAN
    /\ detailedSummary \in BOOLEAN
    /\ threads \in 0..MaxThreads
    /\ deployerSet \in BOOLEAN
    /\ rawConfig \in RawConfigs
    /\ ~deployerSet =>
          /\ rawConfig.deployArtifacts = ""
          /\ rawConfig.url = ""
          /\ rawConfig.repo = ""
    /\ vConfig = rawConfig
    /\ serverDetails \in BOOLEAN
    /\ deploymentDisabled = FALSE
    /\ buildArtifactsDetailsFile = ""
    /\ result = FALSE
    /\ reader = "none"
    /\ binariesSpecFile = NilSpec
    /\ pomSpecFile = NilSpec
    /\ err = Nil
    /\ props = NoProps
    /\ pc = "init"
    /\ ret = Running
    /\ trace = <<>>

Return(e) == pc' = "done" /\ ret' = e

\* init: a scan was requested and the configuration has no deployer section.
ScanWithoutDeployer_Negated == IsXrayScan /\ deployerSet

ScanWithoutDeployer == IsXrayScan /\ ~deployerSet

\* ------------------------------------------------------------- gc.init()
InitCmd ==
    /\ pc = "init"
    /\ \E readErr \in {Nil, ErrReadConfig},
          tmpErr \in {Nil, ErrCreateTempFile, ErrCloseTempFile} :
        LET disabled == IsXrayScan \/ ~deployerSet
            create == shouldCreateBuildArtifactsFile(disabled)
        IN
        IF readErr /= Nil THEN
            /\ trace' = Log("ReadConfigFile", readErr)
            /\ Return(readErr)
            /\ UNCHANGED <<deploymentDisabled, buildArtifactsDetailsFile>>
        ELSE IF ScanWithoutDeployer THEN
            /\ trace' = Log("ReadConfigFile", Nil)
            /\ Return(ErrNoDeployer)
            /\ UNCHANGED <<deploymentDisabled, buildArtifactsDetailsFile>>
        ELSE
            /\ deploymentDisabled' = disabled
            /\ IF ~create THEN
                  /\ trace' = Log("ReadConfigFile", Nil)
                  /\ pc' = "runGradle"
                  /\ UNCHANGED <<ret, buildArtifactsDetailsFile>>
               ELSE IF tmpErr = ErrCreateTempFile THEN
                  /\ trace' = Log("ReadConfigFile", Nil)
                                 \o <<Call("CreateTempFile", tmpErr)>>
                  /\ Return(tmpErr)
                  /\ UNCHANGED buildArtifactsDetailsFile
               ELSE
                  /\ trace' = Log("ReadConfigFile", Nil)
                                 \o <<Call("CreateTempFile", Nil)>>
                  /\ buildArtifactsDetailsFile' = "tmpfile"
                  /\ IF tmpErr = ErrCloseTempFile
                        THEN Return(tmpErr)
                        ELSE pc' = "runGradle" /\ UNCHANGED ret
    /\ UNCHANGED <<inputs, vConfig, serverDetails, result, reader,
                   binariesSpecFile, pomSpecFile, err, props>>

\* ------------------------------------------- runGradle(...) and Run's gate
\* Run hands gc.IsXrayScan() to runGradle as disableDeploy.
RunGradle ==
    /\ pc = "runGradle"
    /\ \E e \in {Nil, ErrBuildConfig, ErrBuildInfoProps, ErrDependencyPath,
                 ErrGradleExec} :
        LET cfg == createGradleRunConfig(vConfig, buildArtifactsDetailsFile,
                                         threads, IsXrayScan)
        IN
        IF e = ErrBuildConfig THEN
            /\ Return(e)
            /\ UNCHANGED <<vConfig, props, trace>>
        ELSE IF e = ErrBuildInfoProps THEN
            /\ vConfig' = cfg.vConfig
            /\ Return(e)
            /\ UNCHANGED <<props, trace>>
        ELSE IF e = ErrDependencyPath THEN
            /\ vConfig' = cfg.vConfig
            /\ props' = cfg.props
            /\ Return(e)
            /\ UNCHANGED trace
        ELSE
            /\ vConfig' = cfg.vConfig
            /\ props' = cfg.props
            /\ trace' = Log("CalcDependencies", e)
            /\ IF e /= Nil THEN Return(e)
               ELSE IF buildArtifactsDetailsFile /= ""
                    THEN pc' = "unmarshal" /\ UNCHANGED ret
                    ELSE Return(Nil)
    /\ UNCHANGED <<inputs, serverDetails, deploymentDisabled,
                   buildArtifactsDetailsFile, result, reader,
                   binariesSpecFile, pomSpecFile, err>>

\* ------------------------- gc.unmarshalDeployableArtifacts and Run's branch
\* unmarshalDeployableArtifacts: the parser's error ends the run.
ParseFailed_Ignored(e) == FALSE

ParseFailed(e) == e /= Nil

\* Run: conditionalUpload is entered only when a scan was requested.
ScanRequested_Always == TRUE

ScanRequested == IsXrayScan

UnmarshalDeployableArtifacts ==
    /\ pc = "unmarshal"
    /\ \E e \in {Nil, ErrParse} :
        /\ trace' = Log("UnmarshalDeployableArtifacts", e)
        /\ IF ParseFailed(e) THEN
              /\ Return(e)
              /\ UNCHANGED <<result, reader>>
           ELSE
              /\ result' = TRUE
              /\ reader' = "open"
              /\ IF ScanRequested
                    THEN pc' = "conditionalUpload" /\ UNCHANGED ret
                    ELSE Return(Nil)
    /\ UNCHANGED <<inputs, vConfig, serverDetails, deploymentDisabled,
                   buildArtifactsDetailsFile, binariesSpecFile, pomSpecFile,
                   err, props>>

\* ------------------------------- conditionalUpload: gc.ServerDetails()
ServerDetails_ErrIgnored ==
    /\ pc = "conditionalUpload"
    /\ \E e \in {Nil, ErrReadConfig, ErrServerDetails} :
        /\ trace' = Log("ServerDetails", IF serverDetails THEN Nil ELSE e)
        /\ serverDetails' = (serverDetails \/ e = Nil)
        /\ pc' = "scan"
        /\ UNCHANGED ret
    /\ UNCHANGED <<inputs, vConfig, deploymentDisabled,
                   buildArtifactsDetailsFile, result, reader,
                   binariesSpecFile, pomSpecFile, err, props>>

ServerDetails ==
    /\ pc = "conditionalUpload"
    /\ \E e \in {Nil, ErrReadConfig, ErrServerDetails} :
        IF serverDetails THEN
            /\ trace' = Log("ServerDetails", Nil)
            /\ pc' = "scan"
            /\ UNCHANGED <<serverDetails, ret>>
        ELSE
            /\ trace' = Log("ServerDetails", e)
            /\ IF e /= Nil
                  THEN Return(e) /\ UNCHANGED serverDetails
                  ELSE serverDetails' = TRUE /\ pc' = "scan" /\ UNCHANGED ret
    /\ UNCHANGED <<inputs, vConfig, deploymentDisabled,
                   buildArtifactsDetailsFile, result, reader,
                   binariesSpecFile, pomSpecFile, err, props>>

\* ------------------- conditionalUpload: commandsutils.ScanDeployableArtifacts
\* The scanner returns an error with no selections, no error and no selections
\* (the scan did not pass), or no error and both selections.
ScanOutcomes ==
    {[b |-> NilSpec, p |-> NilSpec, err |-> ErrScan],
     [b |-> NilSpec, p |-> NilSpec, err |-> Nil]}
    \cup {[b |-> SpecFiles(nb), p |-> SpecFiles(np), err |-> Nil] :
             nb \in 0..MaxFiles, np \in 0..MaxFiles}

ScanDeployableArtifacts ==
    /\ pc = "scan"
    /\ \E o \in ScanOutcomes :
        /\ binariesSpecFile' = o.b
        /\ pomSpecFile' = o.p
        /\ err' = o.err
        /\ trace' = Log("ScanDeployableArtifacts", o.err)
    /\ pc' = "dispose"
    /\ UNCHANGED <<inputs, vConfig, serverDetails, deploymentDisabled,
                   buildArtifactsDetailsFile, result, reader, props, ret>>

\* ------ conditionalUpload: Close/Reset of the reader, then the two checks
\* that follow it (the scanner's error, the absent binaries selection).
AfterDispose_VerdictIsError ==
    IF err /= Nil \/ ~binariesSpecFile.present THEN Return(ErrScan)
    ELSE pc' = "uploadBinaries" /\ UNCHANGED ret

AfterDispose ==
    IF err /= Nil THEN Return(err)
    ELSE IF ~binariesSpecFile.present THEN Return(Nil)
    ELSE pc' = "uploadBinaries" /\ UNCHANGED ret

\* The scanner's error is inspected before the reader is disposed of.
Dispose_ErrFirst ==
    /\ pc = "dispose"
    /\ IF err /= Nil THEN
          /\ Return(err)
          /\ UNCHANGED <<trace, reader>>
       ELSE IF ~detailedSummary THEN
          \E e \in {Nil, ErrClose} :
            /\ trace' = Log("Close", e)
            /\ IF e /= Nil
                  THEN reader' = "closeFailed" /\ Return(e)
                  ELSE reader' = "closed" /\ AfterDispose
       ELSE
          /\ trace' = Log("Reset", Nil)
          /\ reader' = "reset"
          /\ AfterDispose
    /\ UNCHANGED <<inputs, vConfig, serverDetails, deploymentDisabled,
                   buildArtifactsDetailsFile, result, binariesSpecFile,
                   pomSpecFile, err, props>>

\* The error of Close is dropped.
Dispose_CloseErrIgnored ==
    /\ pc = "dispose"
    /\ IF ~detailedSummary THEN
          \E e \in {Nil, ErrClose} :
            /\ trace' = Log("Close", e)
            /\ reader' = (IF e /= Nil THEN "closeFailed" ELSE "closed")
            /\ AfterDispose
       ELSE
          /\ trace' = Log("Reset", Nil)
          /\ reader' = "reset"
          /\ AfterDispose
    /\ UNCHANGED <<inputs, vConfig, serverDetails, deploymentDisabled,
                   buildArtifactsDetailsFile, result, binariesSpecFile,
                   pomSpecFile, err, props>>

Dispose ==
    /\ pc = "dispose"
    /\ IF ~detailedSummary THEN
          \E e \in {Nil, ErrClose} :
            /\ trace' = Log("Close", e)
            /\ IF e /= Nil
                  THEN reader' = "closeFailed" /\ Return(e)
                  ELSE reader' = "closed" /\ AfterDispose
       ELSE
          /\ trace' = Log("Reset", Nil)
          /\ reader' = "reset"
          /\ AfterDispose
    /\ UNCHANGED <<inputs, vConfig, serverDetails, deploymentDisabled,
                   buildArtifactsDetailsFile, result, binariesSpecFile,
                   pomSpecFile, err, props>>

\* ------------------------------------ conditionalUpload: binaries upload
HasBinaries_OffByOne == binariesSpecFile.files > 1

HasBinaries_OrEmpty == binariesSpecFile.files >= 0

HasBinaries == binariesSpecFile.files > 0

BinariesUploadFailed_Ignored(e) == FALSE

BinariesUploadFailed(e) == e /= Nil

UploadBinaries ==
    /\ pc = "uploadBinaries"
    /\ IF HasBinaries THEN
          \E e \in {Nil, ErrUploadBinaries} :
            /\ trace' = Log("uploadBinaries", e)
            /\ err' = e
            /\ IF BinariesUploadFailed(e)
                  THEN Return(e)
                  ELSE pc' = "uploadPom" /\ UNCHANGED ret
       ELSE
          /\ pc' = "uploadPom"
          /\ UNCHANGED <<trace, err, ret>>
    /\ UNCHANGED <<inputs, vConfig, serverDetails, deploymentDisabled,
                   buildArtifactsDetailsFile, result, reader,
                   binariesSpecFile, pomSpecFile, props>>

\* ------------------------- conditionalUpload: descriptors (pom) upload
HasPoms_OffByOne == pomSpecFile.files > 1

HasPoms_OrEmpty == pomSpecFile.files >= 0

HasPoms == pomSpecFile.files > 0

\* The upload's error is assigned to a shadowing variable and lost.
UploadPom_Shadowed ==
    /\ pc = "uploadPom"
    /\ IF HasPoms THEN
          \E e \in {Nil, ErrUploadPom} :
            /\ trace' = Log("uploadPom", e)
            /\ Return(err)
            /\ UNCHANGED err
       ELSE
          /\ Return(err)
          /\ UNCHANGED <<trace, err>>
    /\ UNCHANGED <<inputs, vConfig, serverDetails, deploymentDisabled,
                   buildArtifactsDetailsFile, result, reader,
                   binariesSpecFile, pomSpecFile, props>>

UploadPom ==
    /\ pc = "uploadPom"
    /\ IF HasPoms THEN
          \E e \in {Nil, ErrUploadPom} :
            /\ trace' = Log("uploadPom", e)
            /\ err' = e
            /\ Return(e)
       ELSE
          /\ Return(err)
          /\ UNCHANGED <<trace, err>>
    /\ UNCHANGED <<inputs, vConfig, serverDetails, deploymentDisabled,
                   buildArtifactsDetailsFile, result, reader,
                   binariesSpecFile, pomSpecFile, props>>

Next ==
    \/ InitCmd
    \/ RunGradle
    \/ UnmarshalDeployableArtifacts
    \/ ServerDetails
    \/ ScanDeployableArtifacts
    \/ Dispose
    \/ UploadBinaries
    \/ UploadPom

Spec == Init /\ [][Next]_vars

\* A run is one sequential thread of control and every collaborator call is
\* a blocking call that returns: the next step of Run is always taken.
FairSpec == Spec /\ WF_vars(Next)

TypeOK ==
    /\ pc \in {"init", "runGradle", "unmarshal", "conditionalUpload", "scan",
               "dispose", "uploadBinaries", "uploadPom", "done"}
    /\ (pc = "done") <=> (ret /= Running)
    /\ reader \in {"none", "open", "closed", "closeFailed", "reset"}
    /\ binariesSpecFile.files \in 0..MaxFiles
    /\ pomSpecFile.files \in 0..MaxFiles

\* ===================================================== properties of a run
Done == pc = "done"

ErrOf(op) == {trace[i].err : i \in Calls(op)}

\* The scanner call has returned, and returned no error.
ScanOk == Nil \in ErrOf("ScanDeployableArtifacts")

DisposeCalls == Calls("Close") \cup Calls("Reset")

\* Errors a run returns before conditionalUpload issues the scanner call.
EarlyErrors ==
    {ErrReadConfig, ErrNoDeployer, ErrCreateTempFile, ErrCloseTempFile,
     ErrBuildConfig, ErrBuildInfoProps, ErrDependencyPath, ErrGradleExec,
     ErrParse, ErrServerDetails}

\* C1 - gate safety: an upload call is issued only if a scan was requested,
\* the scanner call returned before it without error, and the scanner returned
\* a present binaries selection; a run that ends on any other path (no scan
\* requested, a configuration, executor or manifest parse error, a scanner
\* error, an absent binaries selection) has issued no upload call.
C1_GateSafety ==
    /\ UploadCalls /= {} =>
          /\ xrayScan
          /\ binariesSpecFile.present
          /\ \E i \in Calls("ScanDeployableArtifacts") :
                trace[i].err = Nil /\ \A u \in UploadCalls : i < u
    /\ (Done /\ (~xrayScan \/ ret \in EarlyErrors \/ ret = ErrScan
                 \/ ~binariesSpecFile.present)) => UploadCalls = {}

C1_Witness == Done /\ xrayScan /\ ScanOk /\ UploadCalls /= {}

\* C2 - a run with a scan requested and no deployer section in the
\* configuration ends in init with a configuration error (the error of the
\* missing deployer once the configuration was read), and the build executor,
\* the scanner and the upload command are never called.
C2_NoDeployerIsConfigError ==
    (xrayScan /\ ~deployerSet /\ pc /= "init") =>
        /\ Done
        /\ ret \in {ErrReadConfig, ErrNoDeployer}
        /\ Nil \in ErrOf("ReadConfigFile") => ret = ErrNoDeployer
        /\ Calls("CalcDependencies") = {}
        /\ Calls("ScanDeployableArtifacts") = {}
        /\ UploadCalls = {}
        /\ props = NoProps

C2_Witness == xrayScan /\ ~deployerSet /\ Done /\ ret = ErrNoDeployer

\* C3 - disposal exactly once: a finished run that reached conditionalUpload
\* has invoked exactly one of Close / Reset on the reader, Close when the
\* detailed summary was not requested and Reset when it was.
C3_DisposalExactlyOnce ==
    (Done /\ Calls("ServerDetails") /= {}) =>
        /\ NumCalls("Close") + NumCalls("Reset") = 1
        /\ ~detailedSummary => NumCalls("Close") = 1
        /\ detailedSummary => NumCalls("Reset") = 1

\* C4 - if the binaries upload call returns an error, the run has ended with
\* exactly that error and no descriptors upload call was made.
C4_BinariesFailureSkipsPoms ==
    \A i \in Calls("uploadBinaries") :
        trace[i].err /= Nil =>
            /\ Done
            /\ ret = trace[i].err
            /\ NumCalls("uploadPom") = 0
            /\ i = Len(trace)

C4_Witness ==
    Done /\ ret = ErrUploadBinaries /\ pomSpecFile.files > 0
         /\ ErrUploadBinaries \in ErrOf("uploadBinaries")

\* C5 - scan passed with both selections non-empty: a run in which both
\* uploads succeeded made exactly two upload calls, one per class, binaries
\* before descriptors, and returns success; and a run that returns success
\* has made both calls.
BothUploaded ==
    /\ ErrOf("uploadBinaries") = {Nil}
    /\ ErrOf("uploadPom") = {Nil}

C5_TwoUploadsInOrder ==
    (ScanOk /\ binariesSpecFile.files > 0 /\ pomSpecFile.files > 0) =>
        /\ BothUploaded =>
              /\ NumCalls("uploadBinaries") = 1
              /\ NumCalls("uploadPom") = 1
              /\ \A b \in Calls("uploadBinaries"), d \in Calls("uploadPom") :
                     b < d
              /\ Done /\ ret = Nil
        /\ Calls("uploadPom") /= {} => Calls("uploadBinaries") /= {}
        /\ (Done /\ ret = Nil) => BothUploaded

C5_Witness ==
    Done /\ ret = Nil /\ BothUploaded
         /\ binariesSpecFile.files = MaxFiles /\ pomSpecFile.files > 0

C7_FailedVerdictIsSuccess ==
    (Done /\ ScanOk /\ ~binariesSpecFile.present) =>
        /\ ret = Nil
        /\ UploadCalls = {}
        /\ ~detailedSummary => reader = "closed"

\* C7 amended - a failed verdict ends the run with no upload call, and with
\* success unless closing the reader failed, in which case the close error is
\* returned; when the detailed summary was not requested Close was invoked
\* exactly once by then (and the reader is closed when the run succeeds).
C7_Amended ==
    (Done /\ ScanOk /\ ~binariesSpecFile.present) =>
        /\ UploadCalls = {}
        /\ ret \in {Nil, ErrClose}
        /\ ret = ErrClose <=> ErrClose \in ErrOf("Close")
        /\ ~detailedSummary =>
              /\ NumCalls("Close") = 1
              /\ ret = Nil => reader = "closed"

C7_Witness ==
    /\ Done /\ ScanOk /\ ~binariesSpecFile.present
    /\ ~detailedSummary /\ reader = "closed" /\ ret = Nil

\* C8 - errors are surfaced unmodified: a finished run whose last collaborator
\* call returned an error returns that error, and a finished run in which the
\* scanner call returned an error returns that scanner error, whatever the
\* detailed-summary setting and the outcome of the disposal that follows.
C8_ErrorsUnmodified ==
    Done =>
        /\ (trace /= <<>> /\ trace[Len(trace)].err /= Nil) =>
              ret = trace[Len(trace)].err
        /\ \A i \in Calls("ScanDeployableArtifacts") :
              trace[i].err /= Nil => ret = trace[i].err

\* C9 - whenever deployment must be disabled (scan requested, or no deployer
\* section), the deploy-artifacts flag of the properties handed to the build
\* executor is "false".
C9_DeployFlagForcedFalse ==
    (Calls("CalcDependencies") /= {} /\ (xrayScan \/ ~deployerSet)) =>
        props.deployArtifacts = "false"

\* C10 - if parsing the manifest fails, the run has ended with the parser's
\* error, and no scanner, upload, Close or Reset call was made.
C10_ParseFailureAborts ==
    \A i \in Calls("UnmarshalDeployableArtifacts") :
        trace[i].err /= Nil =>
            /\ Done
            /\ ret = trace[i].err
            /\ i = Len(trace)
            /\ Calls("ServerDetails") = {}
            /\ Calls("ScanDeployableArtifacts") = {}
            /\ UploadCalls = {}
            /\ DisposeCalls = {}
            /\ reader = "none" /\ ~result

C10_Witness ==
    Done /\ ret = ErrParse /\ xrayScan
         /\ ErrParse \in ErrOf("UnmarshalDeployableArtifacts")

\* The executor ran and returned no error.
ExecutorOk == Nil \in ErrOf("CalcDependencies")

\* The manifest was parsed without error.
ParseOk == Nil \in ErrOf("UnmarshalDeployableArtifacts")

CloseFailed == ErrClose \in ErrOf("Close")

\* C11 as stated - zero artifacts (both selections hold zero files, or the
\* binaries selection is absent): the finished run made no upload call and
\* returned no error.
C11_ZeroArtifactsNoUploadNoError ==
    (Done /\ ScanOk /\ binariesSpecFile.files = 0 /\ pomSpecFile.files = 0) =>
        UploadCalls = {} /\ ret = Nil

\* C11 amended - zero artifacts: the finished run made no upload call, and
\* returned no error unless Close of the reader failed (detailed summary not
\* requested), in which case it returned the close error; with the detailed
\* summary requested it always returns no error.
C11_Amended ==
    (Done /\ ScanOk /\ binariesSpecFile.files = 0 /\ pomSpecFile.files = 0) =>
        /\ UploadCalls = {}
        /\ IF CloseFailed THEN ret = ErrClose /\ ~detailedSummary
                          ELSE ret = Nil

C11_Witness ==
    /\ Done /\ ScanOk /\ ret = Nil /\ UploadCalls = {}
    /\ binariesSpecFile.present /\ binariesSpecFile.files = 0
    /\ pomSpecFile.files = 0

\* C12 - no scan requested: once the executor has succeeded and the manifest
\* (when a manifest file exists) has been parsed without error, the run has
\* ended with success, with no scanner call and no upload call.
C12_NoScanEndsInSuccess ==
    (~xrayScan /\ ExecutorOk /\ pc /= "unmarshal"
        /\ ErrParse \notin ErrOf("UnmarshalDeployableArtifacts")) =>
        /\ Done /\ ret = Nil
        /\ Calls("ServerDetails") = {}
        /\ Calls("ScanDeployableArtifacts") = {}
        /\ UploadCalls = {}

C12_Witness == ~xrayScan /\ ExecutorOk /\ ParseOk /\ Done /\ ret = Nil

\* C13 - every run terminates, and a finished run is in exactly one of three
\* classes: success with no upload call (scan skipped, scan failed, or nothing
\* to upload), success with at least one upload call (scan passed), or one of
\* the errors of the run; success is never returned after an upload call
\* returned an error.
RunErrors == EarlyErrors \cup {ErrScan, ErrClose, ErrUploadBinaries,
                               ErrUploadPom}

SuccessNoUpload ==
    /\ ret = Nil /\ UploadCalls = {}
    /\ \/ Calls("ScanDeployableArtifacts") = {} /\ DisposeCalls = {}
       \/ ScanOk /\ binariesSpecFile.files = 0 /\ pomSpecFile.files = 0

SuccessWithUpload ==
    /\ ret = Nil /\ UploadCalls /= {}
    /\ ScanOk /\ binariesSpecFile.present

ErrorReturned == ret \in RunErrors

OutcomeClasses == {c \in {"noUpload", "upload", "error"} :
                      \/ c = "noUpload" /\ SuccessNoUpload
                      \/ c = "upload" /\ SuccessWithUpload
                      \/ c = "error" /\ ErrorReturned}

C13_TerminatesInOneOutcome ==
    /\ <>Done
    /\ [](Done => /\ Cardinality(OutcomeClasses) = 1
                  /\ ret = Nil => \A u \in UploadCalls : trace[u].err = Nil
                  /\ (\E u \in UploadCalls : trace[u].err /= Nil) =>
                         ret = trace[Len(trace)].err)

C13_Witness == Done /\ SuccessWithUpload /\ NumCalls("uploadPom") = 1

\* C14 - the reader is disposed of right after the scanner call returns,
\* whether the scanner returned an error or not, and before any upload call.
C14_DisposalRightAfterScan ==
    /\ \A i \in Calls("ScanDeployableArtifacts") :
          \/ i = Len(trace) /\ pc = "dispose"
          \/ /\ i < Len(trace)
             /\ trace[i + 1].op = (IF detailedSummary THEN "Reset" ELSE "Close")
    /\ \A u \in UploadCalls : \E d \in DisposeCalls : d < u
    /\ \A d \in DisposeCalls :
          d > 1 /\ trace[d - 1].op = "ScanDeployableArtifacts"

C14_Witness ==
    Done /\ ret = ErrScan /\ NumCalls("Reset") = 1 /\ UploadCalls = {}

\* C15 as stated - the scanner returns a present binaries selection with zero
\* files and a descriptor selection with at least one file: the finished run
\* made no binaries upload call and exactly one descriptors upload call, and
\* returned that call's result.
C15_PomsUploadedAfterNoopBinaries ==
    (Done /\ ScanOk /\ binariesSpecFile.present /\ binariesSpecFile.files = 0
          /\ pomSpecFile.files > 0) =>
        /\ Calls("uploadBinaries") = {}
        /\ NumCalls("uploadPom") = 1
        /\ \A i \in Calls("uploadPom") : ret = trace[i].err

\* C15 amended - same case: no binaries upload call is made; unless Close of
\* the reader failed (then the run returns the close error and makes no upload
\* call) exactly one descriptors upload call is made, it is the last call of
\* the run, and the run returns its result.
C15_Amended ==
    (Done /\ ScanOk /\ binariesSpecFile.present /\ binariesSpecFile.files = 0
          /\ pomSpecFile.files > 0) =>
        /\ Calls("uploadBinaries") = {}
        /\ IF CloseFailed
              THEN ret = ErrClose /\ UploadCalls = {}
              ELSE /\ Calls("uploadPom") = {Len(trace)}
                   /\ ret = trace[Len(trace)].err

C15_Witness ==
    /\ Done /\ ScanOk /\ ~CloseFailed
    /\ binariesSpecFile.present /\ binariesSpecFile.files = 0
    /\ pomSpecFile.files = MaxFiles
    /\ ret = ErrUploadPom

\* C16 - if the binaries upload succeeded and the descriptors upload returns
\* an error, the run has ended with exactly that error, the descriptors call
\* is the last call of the run, and the successful binaries upload call is
\* still the only other upload call (nothing is rolled back or retried).
C16_PomFailureSurfacedNoRollback ==
    \A i \in Calls("uploadPom") :
        (trace[i].err /= Nil /\ Nil \in ErrOf("uploadBinaries")) =>
            /\ Done
            /\ ret = trace[i].err
            /\ i = Len(trace)
            /\ UploadCalls = {i - 1, i}
            /\ trace[i - 1] = Call("uploadBinaries", Nil)

C16_Witness ==
    /\ Done /\ ret = ErrUploadPom
    /\ ErrOf("uploadBinaries") = {Nil}
    /\ ErrUploadPom \in ErrOf("uploadPom")

\* C17 - in the properties handed to the executor: when createGradleRunConfig
\* disabled deployment (disableDeploy, which Run sets to IsXrayScan) an unset
\* deploy URL / repository is the placeholder and a set one is the configured
\* value; when it did not, the deploy flag, URL and repository are the
\* configured values.
C17_PlaceholdersOnlyWhenUnset ==
    Calls("CalcDependencies") /= {} =>
        IF xrayScan
        THEN /\ props.deployArtifacts = "false"
             /\ props.url = (IF rawConfig.url = "" THEN EmptyUrl
                                                   ELSE rawConfig.url)
             /\ props.repo = (IF rawConfig.repo = "" THEN EmptyRepo
                                                     ELSE rawConfig.repo)
             /\ vConfig.url = props.url /\ vConfig.repo = props.repo
        ELSE /\ props.deployArtifacts = rawConfig.deployArtifacts
             /\ props.url = rawConfig.url
             /\ props.repo = rawConfig.repo
             /\ vConfig.deployArtifacts = rawConfig.deployArtifacts
             /\ vConfig.url = rawConfig.url
             /\ vConfig.repo = rawConfig.repo

C17_Witness ==
    /\ Calls("CalcDependencies") /= {} /\ xrayScan
    /\ rawConfig.url = "" /\ props.url = EmptyUrl
    /\ rawConfig.repo /= "" /\ props.repo = rawConfig.repo

\* C18 - after a successful init a manifest file path exists exactly when a
\* scan was requested, or the detailed summary was requested and a deployer is
\* configured; a run with the detailed summary, no scan and no deployer parses
\* no manifest and leaves the result unset; and (as stated) a finished run
\* with a scan requested whose executor and manifest parse succeeded has made
\* the scanner call.
InitSucceeded ==
    /\ pc /= "init"
    /\ Nil \in ErrOf("ReadConfigFile")
    /\ ret \notin {ErrNoDeployer, ErrCreateTempFile, ErrCloseTempFile}

ManifestFileRule ==
    /\ InitSucceeded =>
          /\ (buildArtifactsDetailsFile /= "") <=>
                (xrayScan \/ (detailedSummary /\ deployerSet))
          /\ deploymentDisabled = (xrayScan \/ ~deployerSet)
    /\ (detailedSummary /\ ~xrayScan /\ ~deployerSet) =>
          /\ Calls("UnmarshalDeployableArtifacts") = {}
          /\ ~result /\ reader = "none"
          /\ buildArtifactsDetailsFile = ""

C18_ScanGateNeverSkipped ==
    /\ ManifestFileRule
    /\ (Done /\ xrayScan /\ ExecutorOk /\ ParseOk) =>
          Calls("ScanDeployableArtifacts") /= {}

\* C18 amended - the same, except that a finished run with a scan requested
\* whose executor and manifest parse succeeded has made the scanner call
\* unless gc.ServerDetails() failed at the start of conditionalUpload, in
\* which case the run returned that error; and a run with a scan requested
\* always has a manifest file to parse once the executor succeeded.
C18_Amended ==
    /\ ManifestFileRule
    /\ (xrayScan /\ ExecutorOk) =>
          Calls("UnmarshalDeployableArtifacts") /= {} \/ pc = "unmarshal"
    /\ (Done /\ xrayScan /\ ExecutorOk /\ ParseOk) =>
          \/ NumCalls("ScanDeployableArtifacts") = 1
          \/ /\ Calls("ScanDeployableArtifacts") = {}
             /\ trace[Len(trace)].op = "ServerDetails"
             /\ ret = trace[Len(trace)].err
             /\ ret \in {ErrReadConfig, ErrServerDetails}

C18_Witness ==
    /\ InitSucceeded /\ xrayScan /\ ExecutorOk /\ ParseOk
    /\ buildArtifactsDetailsFile /= ""
    /\ NumCalls("ScanDeployableArtifacts") = 1

\* C19 - detailed summary not requested and Close of the reader fails: the run
\* has ended with the close error and no upload call, also when the scan
\* passed with non-empty selections.
C19_CloseErrorReturnedNoUpload ==
    CloseFailed =>
        /\ ~detailedSummary
        /\ Done /\ ret = ErrClose
        /\ UploadCalls = {}
        /\ trace[Len(trace)] = Call("Close", ErrClose)

C19_Witness ==
    /\ CloseFailed /\ Done /\ ret = ErrClose /\ ScanOk
    /\ binariesSpecFile.files > 0 /\ pomSpecFile.files > 0

\* C20 - the reader is touched only on the scan path: with no scan requested,
\* or when gc.ServerDetails() failed at the start of conditionalUpload,
\* neither Close nor Reset is invoked and no scanner or upload call is made,
\* and a parsed result's reader is left open.
ServerDetailsFailed ==
    \E i \in Calls("ServerDetails") : trace[i].err /= Nil

C20_ReaderUntouchedOffScanPath ==
    (~xrayScan \/ ServerDetailsFailed) =>
        /\ DisposeCalls = {}
        /\ Calls("ScanDeployableArtifacts") = {}
        /\ UploadCalls = {}
        /\ result => reader = "open"
        /\ ServerDetailsFailed => result /\ Done /\ ret /= Nil

C20_Witness ==
    /\ Done /\ ServerDetailsFailed /\ result /\ reader = "open"
    /\ ret = ErrServerDetails
====
